---- MODULE Spec2Model ----
(***************************************************************************)
(* A model of the notebook pixel_rate_time_series: the "Preparing the      *)
(* data" code cell, which turns the columns of the DataFrame df into the   *)
(* four lists l_values, r_values, t_values and b_values, and the plotting  *)
(* cell, which hands max(t_values) and the four lists to the figure.       *)
(*                                                                         *)
(* Python ints are unbounded and are modelled by TLA+ integers.  Python    *)
(* floats are IEEE-754 binary64 values.  A float is modelled exactly, as   *)
(* the dyadic rational  w + n / 2^e  held in a record [w, n, e] in         *)
(* canonical form: either n = 0 and e = 0, or n is odd and 0 < n < 2^e.    *)
(* Two floats are equal iff their records are equal.                       *)
(***************************************************************************)
EXTENDS Integers, Sequences, FiniteSets, TLC

\* The longest DataFrame the model loads.
MaxLen == 2

\* The number of significand bits of a Python float (sys.float_info.mant_dig).
MANT_DIG == 53

----------------------------------------------------------------------------
(* Integers *)

RECURSIVE Pow2(_)
Pow2(k) == IF k = 0 THEN 1 ELSE 2 * Pow2(k - 1)

\* The position of the leading bit of x >= 1.
RECURSIVE FloorLog2(_)
FloorLog2(x) == IF x < 2 THEN 0 ELSE 1 + FloorLog2(x \div 2)

\* C's remainder, which takes the sign of the dividend.
TruncMod(a, b) == IF a >= 0 THEN a - b * (a \div b) ELSE -((-a) - b * ((-a) \div b))

\* Faulty variant of PyMod: counts the seconds of a period from 1 to b.
PyModOneBased(a, b) ==
    IF a - b * (a \div b) = 0 THEN b ELSE a - b * (a \div b)

\* Python's  a % b  on ints, b > 0: a - b * floor(a / b).
PyMod(a, b) == a - b * (a \div b)

----------------------------------------------------------------------------
(* Floats *)

Flt(w, n, e) == [w |-> w, n |-> n, e |-> e]

\* float(i) of an int i: exact, every int of the model is below 2^53.
FromInt(i) == Flt(i, 0, 0)

Zero == FromInt(0)

\* The canonical numerator and exponent of the fraction r / 2^k, 0 <= r < 2^k.
RECURSIVE Canon(_, _)
Canon(r, k) ==
    IF r = 0 THEN <<0, 0>>
    ELSE IF r % 2 = 0 THEN Canon(r \div 2, k - 1)
    ELSE <<r, k>>

\* n / 2^d rounded to the nearest integer, ties to the even one (n >= 0, d >= 1).
RoundHalfEven(n, d) ==
    IF d > 31 THEN 0
    ELSE IF d = 31 THEN (IF n > Pow2(30) THEN 1 ELSE 0)
    ELSE LET q    == n \div Pow2(d)
             rem  == n % Pow2(d)
             half == Pow2(d - 1)
         IN  IF rem > half \/ (rem = half /\ q % 2 = 1) THEN q + 1 ELSE q

\* The binary64 nearest to the exact value v (round to nearest, ties to even).
\* A value below 1 in magnitude has a numerator under 2^31 and is exact; so is
\* a negative value of the model, whose fraction has at most 30 bits.
RoundToFloat(v) ==
    IF v.w < 1 \/ v.n = 0 THEN v
    ELSE LET k == MANT_DIG - 1 - FloorLog2(v.w)  \* fraction bits that fit
         IN  IF v.e <= k THEN v
             ELSE LET r == RoundHalfEven(v.n, v.e - k)
                  IN  IF k <= 30 /\ r = Pow2(k) THEN FromInt(v.w + 1)
                      ELSE Flt(v.w, Canon(r, k)[1], Canon(r, k)[2])

\* Python's  s + a  for an int s and a float a: s is converted to float and the
\* exact sum is rounded once.
FloatAdd(s, a) == RoundToFloat(Flt(s + a.w, a.n, a.e))

\* The fraction x.n / 2^x.e is below the fraction y.n / 2^y.e.
FracLess(x, y) ==
    IF x.e = y.e THEN x.n < y.n
    ELSE IF x.e < y.e
         THEN (IF y.e - x.e > 30 THEN x.n = 0
               ELSE x.n <= y.n \div Pow2(y.e - x.e))
         ELSE (IF x.e - y.e > 30 THEN y.n # 0
               ELSE x.n \div Pow2(x.e - y.e) < y.n)

\* Python's  x < y  and  x <= y  on floats.
FloatLess(x, y) == x.w < y.w \/ (x.w = y.w /\ FracLess(x, y))
FloatLeq(x, y) == x = y \/ FloatLess(x, y)

----------------------------------------------------------------------------
(* The data *)

\* SECONDS_IN_A_DAY as timevals.py sets it, and a short period beside it.
Periods == {7, 86400}

\* The start_time_s column: whole periods, the second before one, a timestamp
\* of the data set, and a negative one.
StartTimes(P) == {-1, 0, P - 1, P, 2 * P, 1396447375}

\* The acq_time_s column: 0.0, 120.0, 2^-40 and -5.0.
AcqTimes == {Zero, FromInt(120), Flt(0, 1, 40), FromInt(-5)}

\* The n_pixels and pixels_per_second columns, row by row: 0.5 pixels per
\* second with 0 and with 60 pixels, and -1.0 with 60 pixels.
Counts == {<<0, Flt(0, 1, 1)>>, <<60, Flt(0, 1, 1)>>, <<60, FromInt(-1)>>}

\* The rows read_csv can deliver.
Frames(P) ==
    {[start_time_s |-> s, acq_time_s |-> a,
      n_pixels |-> c[1], pixels_per_second |-> c[2]] :
        s \in StartTimes(P), a \in AcqTimes, c \in Counts}

\* The rows of the files a reloaded DataFrame is read from: a whole-second
\* frame across the end of the day, the same frame with another pixel count, a
\* 2^-40 s frame with no pixels, and a frame of the data set.
ReloadFrames(P) ==
    {[start_time_s |-> P - 1, acq_time_s |-> FromInt(120),
      n_pixels |-> 60, pixels_per_second |-> Flt(0, 1, 1)],
     [start_time_s |-> P - 1, acq_time_s |-> FromInt(120),
      n_pixels |-> 0, pixels_per_second |-> Flt(0, 1, 1)],
     [start_time_s |-> P - 1, acq_time_s |-> Flt(0, 1, 40),
      n_pixels |-> 0, pixels_per_second |-> Zero],
     [start_time_s |-> 1396447375, acq_time_s |-> FromInt(30),
      n_pixels |-> 60, pixels_per_second |-> FromInt(2)]}

\* All sequences over S of length at most k.
SeqsUpTo(S, k) == UNION {[1..m -> S] : m \in 0..k}

\* df[c].tolist(): column c of the DataFrame as a list, in row order.
Column(d, c) == [i \in 1..Len(d) |-> d[i][c]]

\* Faulty variant of Zip: stops one pair early.
ZipShort(a, b) ==
    LET m == IF Len(a) <= Len(b) THEN Len(a) ELSE Len(b)
    IN  [i \in 1..(IF m = 0 THEN 0 ELSE m - 1) |-> <<a[i], b[i]>>]

\* zip(a, b): the pairs up to the end of the shorter list.
Zip(a, b) ==
    LET m == IF Len(a) <= Len(b) THEN Len(a) ELSE Len(b)
    IN  [i \in 1..m |-> <<a[i], b[i]>>]

\* Faulty variant of FloatMax: the last element.
FloatMaxLast(xs) == xs[Len(xs)]

\* max(xs) of a non-empty list of floats: the first greatest element.
RECURSIVE FloatMax(_)
FloatMax(xs) ==
    IF Len(xs) = 1 THEN xs[1]
    ELSE LET m == FloatMax(SubSeq(xs, 1, Len(xs) - 1))
         IN  IF FloatLess(m, xs[Len(xs)]) THEN xs[Len(xs)] ELSE m

----------------------------------------------------------------------------
(* The state *)

VARIABLES
    df,               \* the DataFrame: a sequence of rows
    SECONDS_IN_A_DAY, \* the constant imported from timevals
    l_values,         \* the four lists; <<>> until their statement has run
    r_values,
    t_values,
    b_values,
    y_max,            \* the upper y limit handed to get_day_plot_figure
    error,            \* the exception that ended a cell, "None" when none
    pc,               \* the statement to run next
    prev              \* history: the input and the lists of the run before

vars == <<df, SECONDS_IN_A_DAY, l_values, r_values, t_values, b_values,
          y_max, error, pc, prev>>

\* No run before this one.
NoRun ==
    [has |-> FALSE, df |-> <<>>, l_values |-> <<>>, r_values |-> <<>>,
     t_values |-> <<>>, b_values |-> <<>>, error |-> "None", pc |-> "l_values"]

Init ==
    /\ SECONDS_IN_A_DAY \in Periods
    /\ df \in SeqsUpTo(Frames(SECONDS_IN_A_DAY), MaxLen)
    /\ l_values = <<>>
    /\ r_values = <<>>
    /\ t_values = <<>>
    /\ b_values = <<>>
    /\ y_max = Zero
    /\ error = "None"
    /\ pc = "l_values"
    /\ prev = NoRun

\* The notebook with a DataFrame of the reloaded files.
InitReload ==
    /\ SECONDS_IN_A_DAY \in Periods
    /\ df \in SeqsUpTo(ReloadFrames(SECONDS_IN_A_DAY), MaxLen)
    /\ l_values = <<>>
    /\ r_values = <<>>
    /\ t_values = <<>>
    /\ b_values = <<>>
    /\ y_max = Zero
    /\ error = "None"
    /\ pc = "l_values"
    /\ prev = NoRun

----------------------------------------------------------------------------
(* The "Preparing the data" cell *)

\* Faulty variant of Compute_l_values: rows with a negative start time are
\* skipped.
Compute_l_values_skip(d, P) ==
    LET starts == SelectSeq(Column(d, "start_time_s"), LAMBDA x : x >= 0)
    IN  [i \in 1..Len(starts) |-> PyMod(starts[i], P)]

\* Faulty variant of Compute_l_values: the timestamp itself, no modulus.
Compute_l_values_raw(d, P) == Column(d, "start_time_s")

\* Faulty variant of Compute_l_values: the new values are appended to the list
\* the name l_values is bound to.
Compute_l_values_append(d, P) ==
    l_values \o [i \in 1..Len(d) |-> PyMod(d[i].start_time_s, P)]

\* Faulty variant of Compute_l_values: the time of day counted from the first
\* frame of the DataFrame.
Compute_l_values_relative(d, P) ==
    [i \in 1..Len(d) |-> PyMod(d[i].start_time_s - d[1].start_time_s, P)]

\* Faulty variant of Compute_l_values: a period one second short.
Compute_l_values_short(d, P) ==
    [i \in 1..Len(d) |-> PyMod(d[i].start_time_s, P - 1)]

\* [(s % SECONDS_IN_A_DAY) for s in df['start_time_s'].tolist()]
Compute_l_values(d, P) ==
    LET starts == Column(d, "start_time_s")
    IN  [i \in 1..Len(starts) |-> PyMod(starts[i], P)]

\* Faulty variant of Compute_r_values: a negative acquisition time counts as 0.0.
Compute_r_values_clamped(l, d) ==
    LET pairs == Zip(l, Column(d, "acq_time_s"))
    IN  [i \in 1..Len(pairs) |->
            FloatAdd(pairs[i][1],
                     IF FloatLess(pairs[i][2], Zero) THEN Zero ELSE pairs[i][2])]

\* Faulty variant of Compute_r_values: a right edge past the end of the day is
\* cut back to the end of the day.
Compute_r_values_clipped(l, d) ==
    LET pairs == Zip(l, Column(d, "acq_time_s"))
        sum(i) == FloatAdd(pairs[i][1], pairs[i][2])
    IN  [i \in 1..Len(pairs) |->
            IF FloatLess(FromInt(SECONDS_IN_A_DAY), sum(i))
            THEN FromInt(SECONDS_IN_A_DAY) ELSE sum(i)]

\* Faulty variant of Compute_r_values: s - a for a whole number of seconds a.
Compute_r_values_minus(l, d) ==
    LET pairs == Zip(l, Column(d, "acq_time_s"))
    IN  [i \in 1..Len(pairs) |->
            IF pairs[i][2].n = 0
            THEN FloatAdd(pairs[i][1], FromInt(-pairs[i][2].w))
            ELSE FloatAdd(pairs[i][1], pairs[i][2])]

\* [s + a for s, a in zip(l_values, df['acq_time_s'].tolist())]
Compute_r_values(l, d) ==
    LET pairs == Zip(l, Column(d, "acq_time_s"))
    IN  [i \in 1..Len(pairs) |-> FloatAdd(pairs[i][1], pairs[i][2])]

\* The float p / q for ints p >= 0 and q > 0, exact when the quotient has at
\* most 8 fraction bits and cut to 8 fraction bits otherwise.
Ratio(p, q) ==
    LET m == (p * Pow2(8)) \div q
    IN  Flt(m \div Pow2(8), Canon(m % Pow2(8), 8)[1], Canon(m % Pow2(8), 8)[2])

\* Faulty variant of Compute_t_values: the rate is recomputed as
\* n_pixels / acq_time_s where the acquisition time is a whole number of seconds.
Compute_t_values_recomputed(d) ==
    [i \in 1..Len(d) |->
        IF d[i].acq_time_s.n = 0 /\ d[i].acq_time_s.w > 0 /\ d[i].n_pixels >= 0
        THEN Ratio(d[i].n_pixels, d[i].acq_time_s.w)
        ELSE d[i].pixels_per_second]

\* df['pixels_per_second'].tolist()
Compute_t_values(d) == Column(d, "pixels_per_second")

\* Faulty variant of Compute_b_values: the bottom follows the left edge.
Compute_b_values_left(l) == [i \in 1..Len(l) |-> FromInt(l[i])]

\* Faulty variant of Compute_b_values: never fewer than one zero.
Compute_b_values_padded(l) ==
    [i \in 1..(IF Len(l) = 0 THEN 1 ELSE Len(l)) |-> Zero]

\* [0.0] * len(l_values)
Compute_b_values(l) == [i \in 1..Len(l) |-> Zero]

\* Faulty variant of Set_l_values: the start times are normalized in place, in
\* the DataFrame.
Set_l_values_inplace ==
    /\ pc = "l_values"
    /\ l_values' = Compute_l_values(df, SECONDS_IN_A_DAY)
    /\ df' = [i \in 1..Len(df) |->
                [df[i] EXCEPT !.start_time_s = PyMod(@, SECONDS_IN_A_DAY)]]
    /\ pc' = "r_values"
    /\ UNCHANGED <<SECONDS_IN_A_DAY, r_values, t_values, b_values, y_max, error, prev>>

Set_l_values ==
    /\ pc = "l_values"
    /\ l_values' = Compute_l_values(df, SECONDS_IN_A_DAY)
    /\ pc' = "r_values"
    /\ UNCHANGED <<df, SECONDS_IN_A_DAY, r_values, t_values, b_values, y_max, error, prev>>

Set_r_values ==
    /\ pc = "r_values"
    /\ r_values' = Compute_r_values(l_values, df)
    /\ pc' = "t_values"
    /\ UNCHANGED <<df, SECONDS_IN_A_DAY, l_values, t_values, b_values, y_max, error, prev>>

Set_t_values ==
    /\ pc = "t_values"
    /\ t_values' = Compute_t_values(df)
    /\ pc' = "b_values"
    /\ UNCHANGED <<df, SECONDS_IN_A_DAY, l_values, r_values, b_values, y_max, error, prev>>

Set_b_values ==
    /\ pc = "b_values"
    /\ b_values' = Compute_b_values(l_values)
    /\ pc' = "plot"
    /\ UNCHANGED <<df, SECONDS_IN_A_DAY, l_values, r_values, t_values, y_max, error, prev>>

----------------------------------------------------------------------------
(* The plotting cell *)

\* p = get_day_plot_figure(max(t_values)): max of an empty list raises
\* ValueError and the cell ends there.
Plot ==
    /\ pc = "plot"
    /\ IF t_values = <<>>
       THEN error' = "ValueError" /\ UNCHANGED y_max
       ELSE y_max' = FloatMax(t_values) /\ UNCHANGED error
    /\ pc' = "done"
    /\ UNCHANGED <<df, SECONDS_IN_A_DAY, l_values, r_values, t_values, b_values, prev>>

Next == Set_l_values \/ Set_r_values \/ Set_t_values \/ Set_b_values \/ Plot

Spec == Init /\ [][Next]_vars

----------------------------------------------------------------------------
(* Running the cells again *)

\* The read_csv cell is run again, on the same file or on another one, and the
\* cells below it are run again after it.  The names l_values, r_values,
\* t_values, b_values stay bound to the lists of the run before until their
\* statements run again.
Reload ==
    /\ pc \in {"plot", "done"}
    /\ prev' = [has |-> TRUE, df |-> df, l_values |-> l_values,
                r_values |-> r_values, t_values |-> t_values,
                b_values |-> b_values, error |-> error, pc |-> pc]
    /\ df' \in SeqsUpTo(ReloadFrames(SECONDS_IN_A_DAY), MaxLen)
    /\ error' = "None"
    /\ pc' = "l_values"
    /\ UNCHANGED <<SECONDS_IN_A_DAY, l_values, r_values, t_values, b_values, y_max>>

NextReload ==
    Set_l_values \/ Set_r_values \/ Set_t_values \/ Set_b_values \/ Plot \/ Reload

SpecReload == InitReload /\ [][NextReload]_vars

----------------------------------------------------------------------------
(* What the claims speak of *)

\* The "Preparing the data" cell has run to its end.
Prepared == pc \in {"plot", "done"}

N == Len(df)

Rows == 1..N

Negative(x) == FloatLess(x, Zero)

\* The constraints the specification puts on a FrameRecord.
ValidFrame(f) ==
    /\ f.start_time_s >= 0
    /\ ~Negative(f.acq_time_s)
    /\ f.n_pixels >= 0
    /\ ~Negative(f.pixels_per_second)

ValidInput == \A i \in Rows : ValidFrame(df[i])

AllListsFull ==
    /\ Len(l_values) = N
    /\ Len(r_values) = N
    /\ Len(t_values) = N
    /\ Len(b_values) = N

\* Half a unit in the last place of float(l), l >= 1.
HalfUlp(l) == Flt(0, 1, MANT_DIG - FloorLog2(l))

----------------------------------------------------------------------------
(* C1 *)

----------------------------------------------------------------------------
(* C2 *)

----------------------------------------------------------------------------
(* C3 *)

\* C3: for a valid input, every left value is start_time_s mod
\* SECONDS_IN_A_DAY and lies in [0, SECONDS_IN_A_DAY); 1396447375 gives 50575
\* for a period of 86400.
C3_LeftIsStartModPeriod ==
    (Prepared /\ ValidInput) =>
        /\ Len(l_values) = N
        /\ \A i \in Rows :
            /\ l_values[i] = df[i].start_time_s % SECONDS_IN_A_DAY
            /\ 0 <= l_values[i]
            /\ l_values[i] < SECONDS_IN_A_DAY
            /\ (df[i].start_time_s = 1396447375 /\ SECONDS_IN_A_DAY = 86400)
                    => l_values[i] = 50575

C3_Witness ==
    /\ Prepared
    /\ ValidInput
    /\ SECONDS_IN_A_DAY = 86400
    /\ \E i \in Rows :
        df[i].start_time_s = 1396447375 /\ l_values[i] = 50575

----------------------------------------------------------------------------
(* C4 *)

\* C4: every right value is the float sum of the normalized left value and
\* acq_time_s, one per record; a whole number of seconds is added exactly, also
\* past the end of the day: 86399 and 120.0 give left 86399 and right 86519.0.
C4_RightIsLeftPlusAcq ==
    Prepared =>
        /\ Len(r_values) = N
        /\ \A i \in Rows :
            /\ r_values[i] = FloatAdd(l_values[i], df[i].acq_time_s)
            /\ df[i].acq_time_s.n = 0
                    => r_values[i] = FromInt(l_values[i] + df[i].acq_time_s.w)
            /\ (/\ df[i].start_time_s = 86399
                /\ SECONDS_IN_A_DAY = 86400
                /\ df[i].acq_time_s = FromInt(120))
                    => l_values[i] = 86399 /\ r_values[i] = FromInt(86519)

\* A frame that starts in the last second of the day and ends after it.
C4_Witness ==
    /\ Prepared
    /\ SECONDS_IN_A_DAY = 86400
    /\ \E i \in Rows :
        /\ df[i].start_time_s = 86399
        /\ df[i].acq_time_s = FromInt(120)
        /\ r_values[i] = FromInt(86519)
        /\ FloatLess(FromInt(SECONDS_IN_A_DAY), r_values[i])

----------------------------------------------------------------------------
(* C5 *)

\* C5: for a valid input of n records the four lists have n entries each and
\* entry i of each comes from record i; the zip of l_values with the
\* acq_time_s column pairs lists of equal length.
C5_LengthsAndAlignment ==
    /\ (pc = "r_values" /\ ValidInput)
            => Len(l_values) = Len(Column(df, "acq_time_s"))
    /\ (Prepared /\ ValidInput) =>
        /\ AllListsFull
        /\ \A i \in Rows :
            /\ l_values[i] = PyMod(df[i].start_time_s, SECONDS_IN_A_DAY)
            /\ r_values[i] = FloatAdd(l_values[i], df[i].acq_time_s)
            /\ t_values[i] = df[i].pixels_per_second
            /\ b_values[i] = Zero

\* Two valid records that differ, each with its own rectangle.
C5_Witness ==
    /\ Prepared
    /\ ValidInput
    /\ N >= 2
    /\ AllListsFull
    /\ l_values[1] # l_values[2]
    /\ r_values[1] # r_values[2]

----------------------------------------------------------------------------
(* C6 *)

\* C6: every top value is the pixels_per_second of its record, unchanged, and
\* is not negative for a valid record.
C6_TopIsRate ==
    Prepared =>
        /\ Len(t_values) = N
        /\ \A i \in Rows :
            /\ t_values[i] = df[i].pixels_per_second
            /\ ValidFrame(df[i]) => ~Negative(t_values[i])

\* A rate of 0.5 supplied with 0 pixels in 120 seconds is passed through.
C6_Witness ==
    /\ Prepared
    /\ \E i \in Rows :
        /\ ValidFrame(df[i])
        /\ df[i].n_pixels = 0
        /\ df[i].acq_time_s = FromInt(120)
        /\ t_values[i] = Flt(0, 1, 1)

----------------------------------------------------------------------------
(* C7 *)

\* C7: every bottom value is 0.0, whatever the record holds.
C7_BottomIsZero ==
    Prepared =>
        /\ Len(b_values) = N
        /\ \A i \in Rows : b_values[i] = Zero

C7_Witness ==
    /\ Prepared
    /\ \E i \in Rows :
        /\ df[i].start_time_s = 1396447375
        /\ df[i].n_pixels = 60
        /\ l_values[i] # 0
        /\ b_values[i] = Zero

----------------------------------------------------------------------------
(* C8 *)

\* C8 as stated, on valid records: with acq_time_s >= 0, right >= left, and
\* right = left exactly when acq_time_s = 0.
C8_EqualOnlyWhenZeroAcq ==
    Prepared =>
        \A i \in Rows : ValidFrame(df[i]) =>
            /\ FloatLeq(FromInt(l_values[i]), r_values[i])
            /\ r_values[i] = FromInt(l_values[i]) <=> df[i].acq_time_s = Zero

\* C8, amended: with acq_time_s >= 0, right >= left; right = left when
\* acq_time_s = 0, and otherwise only when acq_time_s is at most half a unit in
\* the last place of left, so that the float sum rounds back to left.
C8_RightNotBelowLeft ==
    Prepared =>
        \A i \in Rows : ~Negative(df[i].acq_time_s) =>
            /\ FloatLeq(FromInt(l_values[i]), r_values[i])
            /\ df[i].acq_time_s = Zero => r_values[i] = FromInt(l_values[i])
            /\ (r_values[i] = FromInt(l_values[i]) /\ df[i].acq_time_s # Zero)
                    => /\ l_values[i] >= 1
                       /\ FloatLeq(df[i].acq_time_s, HalfUlp(l_values[i]))

\* 2^-40 s is absorbed at left = 86399 and is not at left = 0.
C8_Witness ==
    /\ Prepared
    /\ N >= 2
    /\ df[1].acq_time_s = Flt(0, 1, 40)
    /\ l_values[1] = 86399
    /\ r_values[1] = FromInt(86399)
    /\ df[2].acq_time_s = Flt(0, 1, 40)
    /\ l_values[2] = 0
    /\ FloatLess(FromInt(0), r_values[2])

----------------------------------------------------------------------------
(* C9 *)

\* C9: a start time that is a whole number of periods, one period included,
\* gives left = 0 and right = acq_time_s.
C9_WholePeriodsWrapToZero ==
    Prepared =>
        \A i \in Rows :
            (df[i].start_time_s >= 0
                /\ df[i].start_time_s % SECONDS_IN_A_DAY = 0) =>
                    /\ l_values[i] = 0
                    /\ r_values[i] = df[i].acq_time_s

\* One full day and two full days, both at left = 0.
C9_Witness ==
    /\ Prepared
    /\ N >= 2
    /\ SECONDS_IN_A_DAY = 86400
    /\ df[1].start_time_s = 86400
    /\ df[2].start_time_s = 2 * 86400
    /\ df[1].acq_time_s = FromInt(120)
    /\ l_values[1] = 0
    /\ l_values[2] = 0
    /\ r_values[1] = FromInt(120)

----------------------------------------------------------------------------
(* C10 *)

\* C10: on an empty DataFrame the cell ends without an error and the four
\* lists are empty.
C10_EmptyInEmptyOut ==
    (Prepared /\ df = <<>>) =>
        /\ l_values = <<>>
        /\ r_values = <<>>
        /\ t_values = <<>>
        /\ b_values = <<>>
        /\ pc = "plot" => error = "None"

C10_Witness ==
    /\ pc = "plot"
    /\ df = <<>>
    /\ error = "None"
    /\ b_values = <<>>

----------------------------------------------------------------------------
(* Vocabulary of the claims about two runs and about the rectangles *)

\* The exact value of x - k for a float x and an int k.
MinusInt(x, k) == Flt(x.w - k, x.n, x.e)

\* right - left and top - bottom of rectangle i, as real numbers.
Width(i) == MinusInt(r_values[i], l_values[i])
Height(i) == MinusInt(t_values[i], b_values[i].w)

\* The product of the reals x and y is the int n.
ProductIs(x, y, n) ==
    IF x = Zero \/ y = Zero THEN n = 0
    ELSE (x.w * Pow2(x.e) + x.n) * (y.w * Pow2(y.e) + y.n) = n * Pow2(x.e + y.e)

\* pixels_per_second is n_pixels / acq_time_s.
Consistent(f) == ProductIs(f.acq_time_s, f.pixels_per_second, f.n_pixels)

\* The sum l + a of an int l >= 0 and a float a > 0 has no more than MANT_DIG
\* significant bits: a is a whole number, or its last fraction bit is within
\* the MANT_DIG bits below the leading bit of the sum.
Fits(l, a) ==
    \/ a.n = 0
    \/ l + a.w = 0
    \/ a.e <= MANT_DIG - 1 - FloorLog2(l + a.w)

\* The lists of this run are those of the run before.
SameLists ==
    /\ l_values = prev.l_values
    /\ r_values = prev.r_values
    /\ t_values = prev.t_values
    /\ b_values = prev.b_values

\* Rectangle i of this run is rectangle i of the run before.
SameRectangle(i) ==
    /\ l_values[i] = prev.l_values[i]
    /\ r_values[i] = prev.r_values[i]
    /\ t_values[i] = prev.t_values[i]
    /\ b_values[i] = prev.b_values[i]

\* The frames f and g agree in every field but n_pixels.
SameButPixels(f, g) == [f EXCEPT !.n_pixels = 0] = [g EXCEPT !.n_pixels = 0]

----------------------------------------------------------------------------
(* C11 *)

\* C11: when the cells are run again on a DataFrame equal to that of the run
\* before, however many runs came earlier, the four lists are equal to those
\* of the run before, and when both runs reached the plot they ended alike
\* (both without an error or both with the same one).
C11_Deterministic ==
    (Prepared /\ prev.has /\ prev.df = df) =>
        /\ SameLists
        /\ (pc = "done" /\ prev.pc = "done") => error = prev.error

C11_Witness ==
    /\ pc = "done"
    /\ prev.has
    /\ prev.pc = "done"
    /\ prev.df = df
    /\ N = 2
    /\ df[1] # df[2]
    /\ SameLists
    /\ Len(l_values) = 2

----------------------------------------------------------------------------
(* C12 *)

\* C12: no statement of the cells changes the DataFrame: its length, the order
\* of its frames and every field of every frame stay as they were read.
C12_InputNotMutated == [][df' = df]_vars

C12_Witness ==
    /\ pc = "done"
    /\ N = 2
    /\ SECONDS_IN_A_DAY = 86400
    /\ df[1].start_time_s = 1396447375
    /\ df[2].start_time_s = -1
    /\ l_values = <<50575, 86399>>

----------------------------------------------------------------------------
(* C13 *)

----------------------------------------------------------------------------
(* C14 *)

\* C14: when two runs have DataFrames of the same length with the same frame
\* at index i, whatever the frames at the other indices, rectangle i of the
\* one run is rectangle i of the other.
C14_PerRecordIndependent ==
    (Prepared /\ prev.has /\ Len(prev.df) = N) =>
        \A i \in Rows : df[i] = prev.df[i] => SameRectangle(i)

C14_Witness ==
    /\ Prepared
    /\ prev.has
    /\ N = 2
    /\ Len(prev.df) = 2
    /\ df[2] = prev.df[2]
    /\ df[1].start_time_s # prev.df[1].start_time_s
    /\ l_values[1] # prev.l_values[1]
    /\ SameRectangle(2)

----------------------------------------------------------------------------
(* C15 *)

\* C15: when the DataFrames of two runs differ in the n_pixels of their frames
\* and in nothing else, the four lists of the two runs are equal.
C15_PixelsNotUsed ==
    (/\ Prepared
     /\ prev.has
     /\ Len(prev.df) = N
     /\ \A i \in Rows : SameButPixels(df[i], prev.df[i])) => SameLists

C15_Witness ==
    /\ Prepared
    /\ prev.has
    /\ N = 1
    /\ Len(prev.df) = 1
    /\ SameButPixels(df[1], prev.df[1])
    /\ df[1].n_pixels = 60
    /\ prev.df[1].n_pixels = 0
    /\ t_values = prev.t_values
    /\ t_values = <<Flt(0, 1, 1)>>

----------------------------------------------------------------------------
(* C16 *)

\* C16: the left edge of a frame with a negative start_time_s is not negative:
\* it lies in [0, SECONDS_IN_A_DAY) and is start_time_s plus a whole number of
\* periods; a start of -1 with a period of 86400 gives 86399.
C16_ModuloNonNegative ==
    \A i \in 1..Len(l_values) :
        df[i].start_time_s < 0 =>
            /\ l_values[i] >= 0
            /\ l_values[i] < SECONDS_IN_A_DAY
            /\ (l_values[i] - df[i].start_time_s) % SECONDS_IN_A_DAY = 0
            /\ (df[i].start_time_s = -1 /\ SECONDS_IN_A_DAY = 86400)
                   => l_values[i] = 86399

C16_Witness ==
    /\ Prepared
    /\ N >= 1
    /\ SECONDS_IN_A_DAY = 86400
    /\ df[1].start_time_s = -1
    /\ l_values[1] = 86399

----------------------------------------------------------------------------
(* C17 *)

\* C17: once the plot cell has run on a non-empty DataFrame it has raised no
\* error, the limit it handed to get_day_plot_figure is one of the tops and no
\* top is above it, and, the frames being valid, no bottom is above its top.
C17_LimitIsMaxTop ==
    (pc = "done" /\ N >= 1) =>
        /\ error = "None"
        /\ \A i \in Rows : FloatLeq(t_values[i], y_max)
        /\ \E i \in Rows : t_values[i] = y_max
        /\ \E i \in Rows : df[i].pixels_per_second = y_max
        /\ ValidInput => \A i \in Rows : FloatLeq(b_values[i], t_values[i])

C17_Witness ==
    /\ pc = "done"
    /\ N = 2
    /\ ValidInput
    /\ FloatLess(t_values[2], t_values[1])
    /\ y_max = t_values[1]
    /\ y_max = FromInt(2)
    /\ b_values[2] = Zero

----------------------------------------------------------------------------
(* C18 *)

\* C18: for every valid frame start_time_s - left is a non-negative multiple
\* of SECONDS_IN_A_DAY; two valid frames that start in the same period are as
\* far apart on the plot as in time, and two whose starts differ by a multiple
\* of the period have the same left edge.
C18_Congruence ==
    Prepared =>
        /\ \A i \in Rows :
               ValidFrame(df[i]) =>
                   /\ df[i].start_time_s - l_values[i] >= 0
                   /\ (df[i].start_time_s - l_values[i]) % SECONDS_IN_A_DAY = 0
        /\ \A i, j \in Rows :
               (ValidFrame(df[i]) /\ ValidFrame(df[j])) =>
                   /\ (df[i].start_time_s \div SECONDS_IN_A_DAY
                           = df[j].start_time_s \div SECONDS_IN_A_DAY)
                          => l_values[j] - l_values[i]
                                 = df[j].start_time_s - df[i].start_time_s
                   /\ ((df[j].start_time_s - df[i].start_time_s)
                           % SECONDS_IN_A_DAY = 0)
                          => l_values[j] = l_values[i]

C18_Witness ==
    /\ Prepared
    /\ N = 2
    /\ ValidInput
    /\ df[1].start_time_s = SECONDS_IN_A_DAY
    /\ df[2].start_time_s = 0
    /\ l_values[1] = l_values[2]
    /\ FloatLess(Zero, df[1].acq_time_s)
    /\ FloatLess(Zero, df[2].acq_time_s)

====
